---- MODULE Spec2Model ----
(***************************************************************************)
(* swamp-window: the dispatcher `App` (src/src/lib.rs) that sits between   *)
(* the winit event loop and an application's `AppHandler`.                 *)
(*                                                                         *)
(* The state is App's fields plus what the dispatcher does to its two      *)
(* collaborators: the calls it makes on the platform (event loop, window)  *)
(* and on the handler while it processes one raw event.  Every raw event   *)
(* is one action: the whole body of the ApplicationHandler method that     *)
(* receives it.  The platform and the handler are the environment: which   *)
(* event comes next, and what the handler's two queries return, are        *)
(* chosen freely.                                                          *)
(***************************************************************************)
EXTENDS Integers, Sequences, FiniteSets, TLC

\* ------------------------------------------------------------------ bounds
\* Redraw ticks processed in one run (redraw_calls is capped by it).
MaxTicks == 11
\* Window ids the platform can tag an event with.
NumWindowIds == 2
\* Distinct sizes a resize notification can report.
NumSizes == 2

\* ------------------------------------------------------------------ values
\* Option<Arc<Window>>: None, or the id of the window that was created.
None == 0
WindowIds == 1..NumWindowIds
PhysicalSizes == 1..NumSizes

\* A call the dispatcher makes on a collaborator: <<operation, argument>>.
\* Booleans are logged as 1/0; operations without argument log 0.
BoolArg(b) == IF b THEN 1 ELSE 0
Call(op, arg) == <<op, arg>>

\* The AppHandler trait: the operations the dispatcher can invoke on it.
HandlerOps ==
    { "cursor_should_be_visible", "redraw", "got_focus", "lost_focus",
      "window_created", "resized", "keyboard_input", "cursor_entered",
      "cursor_left", "cursor_moved", "mouse_input", "mouse_wheel",
      "mouse_motion", "touch", "scale_factor_changed", "min_size", "start_size" }

\* The platform operations the dispatcher uses.
PlatformOps ==
    { "new_event_loop", "set_control_flow", "create_window", "request_redraw",
      "set_cursor_visible", "exit" }

\* winit::event::WindowEvent: the kinds window_event matches on, and "Other"
\* for every kind that falls to the `_ => {}` arm.
WindowEventKinds ==
    { "CloseRequested", "Resized", "RedrawRequested", "Focused", "KeyboardInput",
      "CursorMoved", "CursorEntered", "CursorLeft", "MouseWheel", "MouseInput",
      "Touch", "ScaleFactorChanged", "Other" }

\* winit::event::DeviceEvent: MouseMotion, and every other kind.
DeviceEventKinds == { "MouseMotion", "OtherDevice" }

\* A raw event as the platform delivers it.
RawEvent(kind, id, arg) == [kind |-> kind, id |-> id, arg |-> arg]

\* The handlers run_app is called with, by the (u16, u16) sizes they answer
\* min_size() and start_size() with: the example's handler, and one whose two
\* sizes coincide.  Titles: the titles run_app is called with.
Handlers ==
    { [min_size |-> <<640, 480>>, start_size |-> <<1280, 960>>],
      [min_size |-> <<320, 200>>, start_size |-> <<320, 200>>] }
Titles == { "swamp" }

\* PhysicalSize::new(size.0 as f64, size.1 as f64): every u16 is an f64.
PhysicalSize(size) == [width |-> size[1], height |-> size[2]]

\* WindowAttributes::default(): the fields App::new sets.
DefaultAttributes ==
    [title |-> "winit window", resizable |-> TRUE, inner_size |-> <<>>,
     min_inner_size |-> <<>>]

VARIABLES
    window,             \* App.window: None or the owned window's id
    window_attributes,  \* <<>> or <<a>>: App.window_attributes, once App exists
    created_attributes, \* <<>> or <<a>>: the attributes given to create_window
    is_focused,         \* App.is_focused
    cursor_is_visible,  \* App.cursor_is_visible
    run,                \* run_app: "starting", "failed" (Err), "running", "panicked", "returned" (Ok)
    exit_by,            \* the event kinds whose processing called event_loop.exit()
    redraw_requested,   \* the window has a redraw pending (Window::request_redraw)
    platform_cursor,    \* <<>> or <<v>>: last value given to Window::set_cursor_visible
    last,               \* the raw event processed last
    calls,              \* the calls made while processing it, in order
    polled,             \* <<>> or <<v>>: cursor_should_be_visible() of the latest tick
    redraw_calls,       \* how many times handler.redraw() was invoked
    kept_going,         \* <<>> or <<v>>: what the latest handler.redraw() returned
    first_false,        \* which redraw() call first returned false (0: none yet)
    created_calls       \* how many times handler.window_created() was invoked

appVars == <<window, is_focused, cursor_is_visible, window_attributes>>
loopVars == <<run, exit_by>>
histVars == <<polled, redraw_calls, kept_going, first_false, created_calls,
              created_attributes>>
vars == <<window, is_focused, cursor_is_visible, run, exit_by, redraw_requested,
          platform_cursor, last, calls, polled, redraw_calls, kept_going,
          first_false, created_calls, window_attributes, created_attributes>>

\* ------------------------------------------------------------- projections
Ops(cs) == { cs[i][1] : i \in 1..Len(cs) }
HandlerCalls(cs) == SelectSeq(cs, LAMBDA c : c[1] \in HandlerOps)
Count(cs, op) == Len(SelectSeq(cs, LAMBDA c : c[1] = op))
ExitRequested == exit_by # {}

\* The state run_app is called in: no App yet.  Its fields hold the values
\* App::new gives them, except window_attributes, which App::new computes.
Init ==
    /\ window = None
    /\ window_attributes = <<>>
    /\ created_attributes = <<>>
    /\ is_focused = FALSE
    /\ cursor_is_visible = TRUE
    /\ run = "starting"
    /\ exit_by = {}
    /\ redraw_requested = FALSE
    /\ platform_cursor = <<>>
    /\ last = RawEvent("start", None, 0)
    /\ calls = <<>>
    /\ polled = <<>>
    /\ redraw_calls = 0
    /\ kept_going = <<>>
    /\ first_false = 0
    /\ created_calls = 0

\* A panic (Option::unwrap on None, Result::unwrap on Err) unwinds out of the
\* handler method and out of run_app: nothing of the method's remainder runs.
Panic(ev, made) ==
    /\ run' = "panicked"
    /\ last' = ev
    /\ calls' = made
    /\ UNCHANGED <<appVars, exit_by, redraw_requested, platform_cursor, histVars>>

\* An event whose processing changes nothing and calls nothing.
Ignore(ev) ==
    /\ last' = ev
    /\ calls' = <<>>
    /\ UNCHANGED <<appVars, loopVars, redraw_requested, platform_cursor, histVars>>

\* An event whose processing is exactly one handler callback.
Forward(ev, op, arg) ==
    /\ last' = ev
    /\ calls' = <<Call(op, arg)>>
    /\ UNCHANGED <<appVars, loopVars, redraw_requested, platform_cursor, histVars>>

\* ---------------------------------------------------------------- resumed
\* resumed without its `self.window.is_none()` test.
resumed_Recreate(id, created_ok) ==
    /\ created_ok
    /\ window' = id
    /\ created_calls' = created_calls + 1
    /\ last' = RawEvent("resumed", None, 0)
    /\ calls' = <<Call("create_window", 0), Call("window_created", id)>>
    /\ created_attributes' = window_attributes
    /\ UNCHANGED <<is_focused, cursor_is_visible, loopVars, redraw_requested,
                   platform_cursor, polled, redraw_calls, kept_going, first_false,
                   window_attributes>>

\* A window created with the platform's defaults instead of App's attributes.
CreateWith_Default == <<DefaultAttributes>>

\* `self.window_attributes.clone()`: what resumed gives to create_window.
CreateWith == window_attributes

\* App::resumed.  id is the id the platform gives the new window, created_ok
\* whether ActiveEventLoop::create_window succeeds.
resumed(id, created_ok) ==
    LET ev == RawEvent("resumed", None, 0) IN
    IF window = None
    THEN IF created_ok
         THEN /\ window' = id
              /\ created_calls' = created_calls + 1
              /\ last' = ev
              /\ calls' = <<Call("create_window", 0), Call("window_created", id)>>
              /\ created_attributes' = CreateWith
              /\ UNCHANGED <<is_focused, cursor_is_visible, loopVars, redraw_requested,
                             platform_cursor, polled, redraw_calls, kept_going,
                             first_false, window_attributes>>
         ELSE Panic(ev, <<Call("create_window", 0)>>)
    ELSE Ignore(ev)

\* ----------------------------------------------------------- device_event
\* device_event without the focus gate.
device_event_Unguarded(kind, arg) ==
    IF kind = "MouseMotion"
    THEN Forward(RawEvent(kind, None, arg), "mouse_motion", arg)
    ELSE Ignore(RawEvent(kind, None, arg))

\* App::device_event
device_event(kind, arg) ==
    LET ev == RawEvent(kind, None, arg) IN
    IF kind = "MouseMotion" /\ is_focused
    THEN Forward(ev, "mouse_motion", arg)
    ELSE Ignore(ev)

\* ----------------------------------------------------------- window_event
\* A close request that shows the cursor again before it exits.
CloseRequested_ShowsCursor(ev) ==
    /\ exit_by' = exit_by \cup {"CloseRequested"}
    /\ cursor_is_visible' = TRUE
    /\ platform_cursor' = <<TRUE>>
    /\ last' = ev
    /\ calls' = <<Call("set_cursor_visible", 1), Call("exit", 0)>>
    /\ UNCHANGED <<window, is_focused, window_attributes, run, redraw_requested,
                   histVars>>

\* A close request that is dropped.
CloseRequested_NoExit(ev) == Ignore(ev)

\* WindowEvent::CloseRequested => event_loop.exit()
CloseRequested(ev) ==
    /\ exit_by' = exit_by \cup {"CloseRequested"}
    /\ last' = ev
    /\ calls' = <<Call("exit", 0)>>
    /\ UNCHANGED <<appVars, run, redraw_requested, platform_cursor, histVars>>

\* A resize arm that asks for the next frame before it tells the handler.
Resized_RequestFirst(ev) ==
    /\ redraw_requested' = TRUE
    /\ last' = ev
    /\ calls' = <<Call("request_redraw", 0), Call("resized", ev.arg)>>
    /\ UNCHANGED <<appVars, loopVars, platform_cursor, histVars>>

\* A resize arm that forgets to ask for the next frame.
Resized_NoRequest(ev) == Forward(ev, "resized", ev.arg)

\* WindowEvent::Resized(physical_size)
Resized(ev) ==
    /\ redraw_requested' = TRUE
    /\ last' = ev
    /\ calls' = <<Call("resized", ev.arg), Call("request_redraw", 0)>>
    /\ UNCHANGED <<appVars, loopVars, platform_cursor, histVars>>

\* A reconciliation that hides the cursor but never shows it again.
NeedsCursorUpdate_OnlyHide(cursor_visible_request) ==
    cursor_is_visible /\ ~cursor_visible_request

\* A reconciliation that applies the polled value on every tick.
NeedsCursorUpdate_Always(cursor_visible_request) == TRUE

\* `cursor_visible_request != self.cursor_is_visible`
NeedsCursorUpdate(cursor_visible_request) ==
    cursor_visible_request # cursor_is_visible

\* A reconciliation that forgets to record what it applied.
TrackedAfterUpdate_Stale(cursor_visible_request) == cursor_is_visible

\* `self.cursor_is_visible = cursor_visible_request`: the tracked value after
\* a reconciliation that found a difference.
TrackedAfterUpdate(cursor_visible_request) == cursor_visible_request

\* A tick that exits whatever redraw() returned.
ShouldExit_Always(wants_to_keep_going) == TRUE

\* A tick that never exits.
ShouldExit_Never(wants_to_keep_going) == FALSE

\* `!wants_to_keep_going`
ShouldExit(wants_to_keep_going) == ~wants_to_keep_going

\* A tick that calls handler.redraw() before it reconciles the cursor.
TickCalls_RedrawFirst(cursor_visible_request, wants_to_keep_going) ==
    <<Call("request_redraw", 0), Call("redraw", 0),
      Call("cursor_should_be_visible", 0)>>
    \o (IF NeedsCursorUpdate(cursor_visible_request)
        THEN <<Call("set_cursor_visible", BoolArg(cursor_visible_request))>>
        ELSE <<>>)
    \o (IF ~wants_to_keep_going THEN <<Call("exit", 0)>> ELSE <<>>)

\* The calls of a redraw tick, in the order of its statements: the redraw
\* request, the cursor reconciliation, handler.redraw() and the exit.
\* `self.window.is_some()` holds at that point: window was unwrapped above.
TickCalls(cursor_visible_request, wants_to_keep_going) ==
    <<Call("request_redraw", 0), Call("cursor_should_be_visible", 0)>>
    \o (IF NeedsCursorUpdate(cursor_visible_request)
        THEN <<Call("set_cursor_visible", BoolArg(cursor_visible_request))>>
        ELSE <<>>)
    \o <<Call("redraw", 0)>>
    \o (IF ShouldExit(wants_to_keep_going) THEN <<Call("exit", 0)>> ELSE <<>>)

\* WindowEvent::RedrawRequested.  The platform clears the pending redraw when
\* it delivers the tick; the first statement requests the next one.
RedrawRequested(ev, cursor_visible_request, wants_to_keep_going) ==
    /\ redraw_requested' = TRUE
    /\ polled' = <<cursor_visible_request>>
    /\ IF NeedsCursorUpdate(cursor_visible_request)
       THEN /\ platform_cursor' = <<cursor_visible_request>>
            /\ cursor_is_visible' = TrackedAfterUpdate(cursor_visible_request)
       ELSE UNCHANGED <<platform_cursor, cursor_is_visible>>
    /\ redraw_calls' = redraw_calls + 1
    /\ kept_going' = <<wants_to_keep_going>>
    /\ first_false' = IF first_false = 0 /\ ~wants_to_keep_going
                      THEN redraw_calls + 1
                      ELSE first_false
    /\ exit_by' = IF ShouldExit(wants_to_keep_going)
                  THEN exit_by \cup {"RedrawRequested"}
                  ELSE exit_by
    /\ last' = ev
    /\ calls' = TickCalls(cursor_visible_request, wants_to_keep_going)
    /\ UNCHANGED <<window, is_focused, run, created_calls, window_attributes,
                   created_attributes>>

\* A focus arm that never records the loss of focus.
Focused_Sticky(ev) ==
    /\ is_focused' = (is_focused \/ ev.arg = 1)
    /\ last' = ev
    /\ calls' = <<Call(IF ev.arg = 1 THEN "got_focus" ELSE "lost_focus", 0)>>
    /\ UNCHANGED <<window, cursor_is_visible, window_attributes, loopVars,
                   redraw_requested, platform_cursor, histVars>>

\* A focus arm that notifies the handler of both transitions.
Focused_Both(ev) ==
    /\ is_focused' = (ev.arg = 1)
    /\ last' = ev
    /\ calls' = <<Call("lost_focus", 0), Call("got_focus", 0)>>
    /\ UNCHANGED <<window, cursor_is_visible, window_attributes, loopVars,
                   redraw_requested, platform_cursor, histVars>>

\* WindowEvent::Focused(is_focus)
Focused(ev) ==
    LET is_focus == (ev.arg = 1) IN
    /\ is_focused' = is_focus
    /\ last' = ev
    /\ calls' = <<Call(IF is_focus THEN "got_focus" ELSE "lost_focus", 0)>>
    /\ UNCHANGED <<window, cursor_is_visible, window_attributes, loopVars,
                   redraw_requested, platform_cursor, histVars>>

\* CursorMoved without the visibility gate.
CursorMoved_Always(ev) == Forward(ev, "cursor_moved", ev.arg)

\* WindowEvent::CursorMoved { position, .. }
CursorMoved(ev) ==
    IF cursor_is_visible
    THEN Forward(ev, "cursor_moved", ev.arg)
    ELSE Ignore(ev)

\* The arms that are one unconditional handler callback.
ForwardedOp(kind) ==
    CASE kind = "KeyboardInput" -> "keyboard_input"
      [] kind = "CursorEntered" -> "cursor_entered"
      [] kind = "CursorLeft" -> "cursor_left"
      [] kind = "MouseWheel" -> "mouse_wheel"
      [] kind = "MouseInput" -> "mouse_input"
      [] kind = "Touch" -> "touch"
      [] kind = "ScaleFactorChanged" -> "scale_factor_changed"

\* The match of window_event, for an event of the owned window.
MatchEvent(ev, cursor_visible_request, wants_to_keep_going) ==
    CASE ev.kind = "CloseRequested" -> CloseRequested(ev)
      [] ev.kind = "Resized" -> Resized(ev)
      [] ev.kind = "RedrawRequested" ->
            RedrawRequested(ev, cursor_visible_request, wants_to_keep_going)
      [] ev.kind = "Focused" -> Focused(ev)
      [] ev.kind = "CursorMoved" -> CursorMoved(ev)
      [] ev.kind = "Other" -> Ignore(ev)
      [] OTHER -> Forward(ev, ForwardedOp(ev.kind), ev.arg)

\* An id test that lets every window's events through.
IdCheck_NoFilter(id) == IF window = None THEN "panic" ELSE "match"

\* The guard of window_event: `id != self.window.as_ref().unwrap().id()`.
\* "panic": window is None; "return": another window's event; "match": ours.
IdCheck(id) ==
    IF window = None THEN "panic"
    ELSE IF id # window THEN "return"
    ELSE "match"

\* App::window_event.  The last two parameters are what the handler returns
\* from cursor_should_be_visible() and redraw() if the event is a redraw tick.
window_event(id, kind, arg, cursor_visible_request, wants_to_keep_going) ==
    LET ev == RawEvent(kind, id, arg) IN
    CASE IdCheck(id) = "panic" -> Panic(ev, <<>>)
      [] IdCheck(id) = "return" -> Ignore(ev)
      [] IdCheck(id) = "match" ->
            MatchEvent(ev, cursor_visible_request, wants_to_keep_going)

\* A suspended that gives the window up.
suspended_DropsWindow ==
    /\ window' = None
    /\ last' = RawEvent("suspended", None, 0)
    /\ calls' = <<>>
    /\ UNCHANGED <<is_focused, cursor_is_visible, window_attributes, loopVars,
                   redraw_requested, platform_cursor, histVars>>

\* App::suspended: empty.
suspended == Ignore(RawEvent("suspended", None, 0))

\* App::exiting: empty.  The event loop calls it once it stops, after which
\* event_loop.run_app and then run_app return.
exiting ==
    /\ run' = "returned"
    /\ last' = RawEvent("exiting", None, 0)
    /\ calls' = <<>>
    /\ UNCHANGED <<appVars, exit_by, redraw_requested, platform_cursor, histVars>>

\* ---------------------------------------------------------------- run_app
\* App::new: the attributes it computes from the title and the two sizes.
new(title, min_size, start_size) ==
    [DefaultAttributes EXCEPT !.title = title,
                              !.resizable = TRUE,
                              !.inner_size = <<PhysicalSize(start_size)>>,
                              !.min_inner_size = <<PhysicalSize(min_size)>>]

\* WindowRunner::run_app up to the start of the event loop.  loop_ok is whether
\* EventLoop::new succeeds; min_size and start_size are the handler's answers.
run_app(loop_ok, title, min_size, start_size) ==
    /\ last' = RawEvent("run_app", None, 0)
    /\ IF loop_ok
       THEN /\ run' = "running"
            /\ window_attributes' = <<new(title, min_size, start_size)>>
            /\ calls' = <<Call("new_event_loop", 0), Call("set_control_flow", 0),
                          Call("min_size", 0), Call("start_size", 0)>>
       ELSE /\ run' = "failed"
            /\ calls' = <<Call("new_event_loop", 0)>>
            /\ UNCHANGED window_attributes
    /\ UNCHANGED <<window, is_focused, cursor_is_visible, exit_by, redraw_requested,
                   platform_cursor, histVars>>

\* ------------------------------------------------------------ the platform
\* The payload a window event of a kind carries.
EventArgs(kind) ==
    CASE kind = "Resized" -> PhysicalSizes
      [] kind = "Focused" -> {0, 1}
      [] OTHER -> {0}

\* The event loop delivers events for as long as run_app has not returned; a
\* call of event_loop.exit() only asks it to stop, and what it has already
\* collected may still be delivered before it does.
RunApp ==
    /\ run = "starting"
    /\ \E loop_ok \in BOOLEAN, title \in Titles, handler \in Handlers :
          run_app(loop_ok, title, handler.min_size, handler.start_size)

Resumed ==
    /\ run = "running"
    /\ \E id \in WindowIds, created_ok \in BOOLEAN : resumed(id, created_ok)

DeviceEvent ==
    /\ run = "running"
    /\ \E kind \in DeviceEventKinds : device_event(kind, 0)

WindowEvent ==
    /\ run = "running"
    /\ \E id \in WindowIds, kind \in WindowEventKinds \ {"RedrawRequested"} :
          \E arg \in EventArgs(kind) : window_event(id, kind, arg, TRUE, TRUE)

RedrawTick ==
    /\ run = "running"
    /\ redraw_calls < MaxTicks
    /\ \E id \in WindowIds, cursor_visible_request \in BOOLEAN,
          wants_to_keep_going \in BOOLEAN :
          window_event(id, "RedrawRequested", 0, cursor_visible_request,
                       wants_to_keep_going)

Suspended ==
    /\ run = "running"
    /\ suspended

Exiting ==
    /\ run = "running"
    /\ ExitRequested
    /\ exiting

Next ==
    \/ RunApp
    \/ Resumed
    \/ DeviceEvent
    \/ WindowEvent
    \/ RedrawTick
    \/ Suspended
    \/ Exiting

Spec == Init /\ [][Next]_vars

\* The platform delivering the redraw tick the owned window has asked for with
\* Window::request_redraw.
DeliverRequestedRedraw ==
    /\ run = "running"
    /\ window # None
    /\ redraw_requested
    /\ redraw_calls < MaxTicks
    /\ \E cursor_visible_request \in BOOLEAN, wants_to_keep_going \in BOOLEAN :
          window_event(window, "RedrawRequested", 0, cursor_visible_request,
                       wants_to_keep_going)

\* The run under the two promises of the platform: a redraw that was requested
\* is delivered as long as the loop runs, and a loop that was asked to exit
\* stops.
FairSpec == Spec /\ WF_vars(DeliverRequestedRedraw) /\ WF_vars(Exiting)

\* ================================================================== claims
\* A step that processes a window event of `kind` tagged with the owned
\* window's id (the window exists when the event arrives).
OwnedEvent(kind) ==
    /\ window # None
    /\ last'.kind = kind
    /\ last'.id = window

\* A step that leaves the dispatcher's fields and the platform as they were.
NothingTouched ==
    /\ appVars' = appVars
    /\ loopVars' = loopVars
    /\ redraw_requested' = redraw_requested
    /\ platform_cursor' = platform_cursor

\* The calls of a tick that C3 orders: all but the query and the exit.
TickOrder(cs) ==
    SelectSeq(cs, LAMBDA c : c[1] \in {"request_redraw", "set_cursor_visible", "redraw"})

\* C1: window_created is invoked once, by the first resumed that finds no
\* window (and whose window creation succeeds); every later resumed calls
\* nothing, no other event invokes it, and the stored window, once set, is
\* never replaced or cleared.
C1_WindowCreatedOnce ==
    /\ [](created_calls = IF window = None THEN 0 ELSE 1)
    /\ [][ /\ window # None => window' = window
           /\ (last'.kind = "resumed" /\ window = None /\ run' = "running") =>
                 /\ window' \in WindowIds
                 /\ calls' = <<Call("create_window", 0), Call("window_created", window')>>
                 /\ created_calls' = 1
           /\ (last'.kind = "resumed" /\ window # None) =>
                 /\ calls' = <<>>
                 /\ created_calls' = created_calls
           /\ last'.kind # "resumed" =>
                 /\ window' = window
                 /\ "window_created" \notin Ops(calls')
                 /\ created_calls' = created_calls
         ]_vars

\* C1's case: a second resumed arrived after the window was created.
C1_Witness ==
    /\ last.kind = "resumed"
    /\ calls = <<>>
    /\ window # None
    /\ created_calls = 1

\* C2: every window event and device event that arrives before the first
\* resumed (no window yet) is a no-op: no call on the handler or the platform,
\* the dispatcher unchanged, and processing ends normally.
C2_EventsBeforeResumedIgnored ==
    [][ (window = None /\ last'.kind \in WindowEventKinds \cup DeviceEventKinds) =>
            /\ calls' = <<>>
            /\ NothingTouched
      ]_vars

\* C3: a redraw tick makes exactly one redraw request, then at most one
\* set_cursor_visible, then exactly one redraw(), in that order, also on the
\* tick whose redraw() returns false.
C3_TickOrder ==
    [][ OwnedEvent("RedrawRequested") =>
            /\ calls'[1] = Call("request_redraw", 0)
            /\ Count(calls', "request_redraw") = 1
            /\ Count(calls', "set_cursor_visible") <= 1
            /\ Count(calls', "redraw") = 1
            /\ TickOrder(calls') \in
                  { <<Call("request_redraw", 0), Call("redraw", 0)>> }
                  \cup { <<Call("request_redraw", 0), Call("set_cursor_visible", b),
                           Call("redraw", 0)>> : b \in {0, 1} }
            /\ redraw_calls' = redraw_calls + 1
      ]_vars

\* C3's case: a tick that changed the cursor and whose redraw() returned false.
C3_Witness ==
    /\ last.kind = "RedrawRequested"
    /\ calls = <<Call("request_redraw", 0), Call("cursor_should_be_visible", 0),
                 Call("set_cursor_visible", 0), Call("redraw", 0), Call("exit", 0)>>

\* C4: a tick calls set_cursor_visible exactly when the value it polled differs
\* from the tracked one, and then with the polled value; a tick that polls the
\* same value as the tick before makes no such call, and while every tick has
\* polled true the platform's cursor visibility was never set.
C4_CursorDebounced ==
    [][ OwnedEvent("RedrawRequested") =>
            /\ Count(calls', "set_cursor_visible") =
                  (IF polled'[1] # cursor_is_visible THEN 1 ELSE 0)
            /\ polled'[1] # cursor_is_visible =>
                  Call("set_cursor_visible", BoolArg(polled'[1])) \in
                     { calls'[i] : i \in 1..Len(calls') }
            /\ polled' = polled => /\ "set_cursor_visible" \notin Ops(calls')
                                   /\ platform_cursor' = platform_cursor
            /\ (platform_cursor = <<>> /\ polled' = <<TRUE>>) => platform_cursor' = <<>>
      ]_vars

\* C4's case: the handler hid the cursor, and a later tick polled the same
\* value again and left the platform alone.
C4_Witness ==
    /\ last.kind = "RedrawRequested"
    /\ redraw_calls >= 3
    /\ polled = <<FALSE>>
    /\ platform_cursor = <<FALSE>>
    /\ "set_cursor_visible" \notin Ops(calls)
    /\ "redraw" \in Ops(calls)

\* C5: a cursor-moved event of the owned window invokes cursor_moved exactly
\* when the tracked cursor_is_visible is true as the event is processed, and
\* does not change it.
C5_CursorMovedGate ==
    [][ OwnedEvent("CursorMoved") =>
            /\ calls' = IF cursor_is_visible
                        THEN <<Call("cursor_moved", last'.arg)>>
                        ELSE <<>>
            /\ NothingTouched
      ]_vars

\* C5's case: a cursor-moved event suppressed after a tick hid the cursor.
C5_Witness ==
    /\ last.kind = "CursorMoved"
    /\ window # None
    /\ last.id = window
    /\ platform_cursor = <<FALSE>>
    /\ ~cursor_is_visible
    /\ calls = <<>>

\* C6: a raw device motion invokes mouse_motion exactly when is_focused is true
\* as the event is processed; the motion right after a focus-lost event is
\* suppressed, the one right after a focus-gained event is delivered.
C6_MouseMotionGate ==
    [][ last'.kind = "MouseMotion" =>
            /\ calls' = IF is_focused
                        THEN <<Call("mouse_motion", last'.arg)>>
                        ELSE <<>>
            /\ NothingTouched
            /\ (last.kind = "Focused" /\ window # None /\ last.id = window) =>
                  (calls' = <<>>) = (last.arg = 0)
      ]_vars

\* C6's case: a motion delivered because the owned window had gained focus.
C6_Witness ==
    /\ last.kind = "MouseMotion"
    /\ calls = <<Call("mouse_motion", 0)>>
    /\ window # None
    /\ is_focused

C9_ForeignEventDiscarded ==
    [][ (window # None /\ last'.kind \in WindowEventKinds /\ last'.id # window) =>
            /\ calls' = <<>>
            /\ NothingTouched
            /\ histVars' = histVars
      ]_vars

\* C9's case: another window's close request arrived and changed nothing.
C9_Witness ==
    /\ last.kind = "CloseRequested"
    /\ window # None
    /\ last.id # window
    /\ exit_by = {}
    /\ run = "running"
    /\ calls = <<>>

\* C10: the tracked cursor_is_visible is the value last given to
\* set_cursor_visible, or true when it was never called.
C10_TrackedCursorIsApplied ==
    cursor_is_visible = IF platform_cursor = <<>> THEN TRUE ELSE platform_cursor[1]

\* C10's case: the cursor was hidden and shown again.
C10_Witness ==
    /\ platform_cursor = <<TRUE>>
    /\ cursor_is_visible
    /\ polled = <<TRUE>>

\* The handler's callbacks proper: the trait without its three queries.
Queries == { "min_size", "start_size", "cursor_should_be_visible" }
Callbacks(cs) == SelectSeq(cs, LAMBDA c : c[1] \in HandlerOps \ Queries)

\* Where the first call of `op` stands in cs (0: nowhere).
IndexOf(cs, op) ==
    IF op \in Ops(cs)
    THEN CHOOSE i \in 1..Len(cs) : cs[i][1] = op /\ \A j \in 1..(i - 1) : cs[j][1] # op
    ELSE 0

\* The platform's cursor visibility: visible until set_cursor_visible says otherwise.
PlatformCursorVisible ==
    IF platform_cursor = <<>> THEN TRUE ELSE platform_cursor[1]

\* C11: a startup failure ends run_app with Err and without a call on the
\* handler: both when the event loop cannot be created and when the window
\* cannot be created on the first resumed.
C11_StartupFailureIsErr ==
    [][ /\ (last'.kind = "run_app" /\ window_attributes' = <<>>) =>
              /\ run' = "failed"
              /\ HandlerCalls(calls') = <<>>
        /\ (last'.kind = "resumed" /\ window = None /\ window' = None) =>
              /\ run' = "failed"
              /\ HandlerCalls(calls') = <<>>
              /\ Count(calls', "create_window") = 1
      ]_vars

\* C12: processing one raw event (resumed, a window event, a device event)
\* invokes at most one of the handler's callbacks; the queries of the trait
\* (cursor_should_be_visible, polled by a redraw tick) are not callbacks.
C12_AtMostOneCallback ==
    [][ last'.kind \in {"resumed"} \cup WindowEventKinds \cup DeviceEventKinds =>
            /\ Len(Callbacks(calls')) <= 1
            /\ Len(HandlerCalls(calls')) <=
                  (IF last'.kind = "RedrawRequested" THEN 2 ELSE 1)
      ]_vars

\* C12's case: a redraw tick, the event that talks to the handler most: one
\* query and one callback.
C12_Witness ==
    /\ last.kind = "RedrawRequested"
    /\ HandlerCalls(calls) = <<Call("cursor_should_be_visible", 0), Call("redraw", 0)>>
    /\ Callbacks(calls) = <<Call("redraw", 0)>>

\* C13: run_app queries min_size() and start_size() once each, before the
\* window is created, and no event queries them again; the window is created
\* with exactly the attributes computed then: the title given to run_app,
\* resizable, start_size as inner size and min_size as minimum inner size.
C13_WindowAttributes ==
    /\ [](created_attributes # <<>> =>
             /\ created_attributes = window_attributes
             /\ created_attributes[1].title \in Titles
             /\ created_attributes[1].resizable
             /\ \E h \in Handlers :
                   /\ created_attributes[1].inner_size = <<PhysicalSize(h.start_size)>>
                   /\ created_attributes[1].min_inner_size = <<PhysicalSize(h.min_size)>>)
    /\ []((created_attributes = <<>>) = (window = None))
    /\ [][ /\ (last'.kind = "run_app" /\ run' = "running") =>
                 /\ Count(calls', "min_size") = 1
                 /\ Count(calls', "start_size") = 1
                 /\ window = None /\ window' = None
                 /\ \E h \in Handlers, t \in Titles :
                       window_attributes' =
                          <<[title |-> t, resizable |-> TRUE,
                             inner_size |-> <<PhysicalSize(h.start_size)>>,
                             min_inner_size |-> <<PhysicalSize(h.min_size)>>]>>
           /\ last'.kind # "run_app" =>
                 /\ Ops(calls') \cap {"min_size", "start_size"} = {}
                 /\ window_attributes' = window_attributes
           /\ created_attributes # <<>> => created_attributes' = created_attributes
         ]_vars

\* C13's case: the example's handler, (640, 480) and (1280, 960), and its window.
C13_Witness ==
    /\ window # None
    /\ created_attributes =
          <<[title |-> "swamp", resizable |-> TRUE,
             inner_size |-> <<[width |-> 1280, height |-> 960]>>,
             min_inner_size |-> <<[width |-> 640, height |-> 480]>>]>>

\* C14: after the reconciliation of a redraw tick, and before its redraw(),
\* the tracked cursor_is_visible and the platform's cursor visibility both are
\* what cursor_should_be_visible() returned in that tick, also on a tick whose
\* redraw() returns false.
C14_ConvergesWithinTick ==
    [][ OwnedEvent("RedrawRequested") =>
            /\ cursor_is_visible' = polled'[1]
            /\ PlatformCursorVisible' = polled'[1]
            /\ IndexOf(calls', "cursor_should_be_visible") < IndexOf(calls', "redraw")
            /\ "set_cursor_visible" \in Ops(calls') =>
                  /\ IndexOf(calls', "cursor_should_be_visible") <
                        IndexOf(calls', "set_cursor_visible")
                  /\ IndexOf(calls', "set_cursor_visible") < IndexOf(calls', "redraw")
      ]_vars

\* C14's case: the handler asked for the cursor back on the tick it quit on.
C14_Witness ==
    /\ last.kind = "RedrawRequested"
    /\ polled = <<TRUE>>
    /\ platform_cursor = <<TRUE>>
    /\ kept_going = <<FALSE>>
    /\ Call("set_cursor_visible", 1) \in { calls[i] : i \in 1..Len(calls) }

\* C15 as stated: once the window exists, with only requested redraws being
\* delivered for sure, redraw() is invoked (again and again) until the run
\* loop exits.
C15_SelfSustainingOnceActive ==
    (window # None) ~> (redraw_calls > 0 \/ run # "running")

\* C15, amended: a redraw request is outstanding after every processed redraw
\* tick and every processed resize of the owned window, and stays outstanding;
\* from then on, with requested redraws being delivered, redraw() is invoked
\* again and again (here: up to the MaxTicks ticks of a run) until the run loop
\* exits.  Creating the window requests no redraw: the first tick or resize is
\* the platform's.
C15_SelfSustainingOnceRequested ==
    /\ redraw_requested ~> (run # "running" \/ redraw_calls = MaxTicks)
    /\ [][ /\ (OwnedEvent("RedrawRequested") \/ OwnedEvent("Resized")) =>
                 /\ redraw_requested'
                 /\ "request_redraw" \in Ops(calls')
           /\ redraw_requested => redraw_requested'
           /\ last'.kind = "resumed" => redraw_requested' = redraw_requested
         ]_vars

\* C15's case: a resize asked for the first frame, and ticks followed.
C15_Witness ==
    /\ redraw_requested
    /\ redraw_calls >= 3
    /\ first_false = 0
    /\ run = "running"

\* C16: event_loop.exit() is called only while a close request of the owned
\* window, or a redraw tick of it whose redraw() returned false, is processed;
\* and the run loop returns only after an exit request, with the window created.
C16_ExitOnlyOnCloseOrQuit ==
    /\ [](run = "returned" => (window # None /\ ExitRequested))
    /\ [][ ("exit" \in Ops(calls') \/ exit_by' # exit_by) =>
              \/ OwnedEvent("CloseRequested")
              \/ (OwnedEvent("RedrawRequested") /\ kept_going' = <<FALSE>>)
         ]_vars

\* C16's case: the handler quit, and the run loop returned.
C16_Witness ==
    /\ run = "returned"
    /\ exit_by = {"RedrawRequested"}
    /\ kept_going = <<FALSE>>

\* C17: is_focused starts false; a focus event of the owned window sets it to
\* the value the event carries and invokes got_focus() (true) or lost_focus()
\* (false), once and nothing else; no other event touches it or invokes them.
C17_FocusTracksLastEvent ==
    /\ ~is_focused
    /\ [][ /\ OwnedEvent("Focused") =>
                 /\ is_focused' = (last'.arg = 1)
                 /\ calls' = <<Call(IF last'.arg = 1 THEN "got_focus" ELSE "lost_focus", 0)>>
           /\ ~OwnedEvent("Focused") =>
                 /\ is_focused' = is_focused
                 /\ Ops(calls') \cap {"got_focus", "lost_focus"} = {}
         ]_vars

\* C17's case: the owned window lost the focus it had.
C17_Witness ==
    /\ last.kind = "Focused"
    /\ last.arg = 0
    /\ last.id = window
    /\ ~is_focused
    /\ calls = <<Call("lost_focus", 0)>>

\* C18: cursor_is_visible (and the platform's cursor visibility) changes only
\* while a redraw tick of the owned window is processed, the only event that
\* polls cursor_should_be_visible(); is_focused changes only while a focus
\* event of the owned window is processed.
C18_TrackedStateFrame ==
    [][ /\ ~OwnedEvent("RedrawRequested") =>
              /\ cursor_is_visible' = cursor_is_visible
              /\ platform_cursor' = platform_cursor
              /\ Ops(calls') \cap {"cursor_should_be_visible", "set_cursor_visible"} = {}
        /\ ~OwnedEvent("Focused") => is_focused' = is_focused
      ]_vars

\* C18's case: a key event while the cursor is hidden and the window focused.
C18_Witness ==
    /\ last.kind = "KeyboardInput"
    /\ last.id = window
    /\ calls = <<Call("keyboard_input", 0)>>
    /\ ~cursor_is_visible
    /\ is_focused

\* C19: a resize of the owned window invokes resized() once with the reported
\* size and then requests one redraw; it neither polls the cursor nor redraws.
C19_ResizeThenRequest ==
    [][ OwnedEvent("Resized") =>
            /\ calls' = <<Call("resized", last'.arg), Call("request_redraw", 0)>>
            /\ redraw_requested'
            /\ redraw_calls' = redraw_calls
            /\ polled' = polled
            /\ appVars' = appVars
      ]_vars

\* C19's case: a resize to the second size.
C19_Witness ==
    /\ last = RawEvent("Resized", window, 2)
    /\ window # None
    /\ calls = <<Call("resized", 2), Call("request_redraw", 0)>>

\* C20: a window event of an unmapped kind for the owned window, a device
\* event other than mouse motion, and the suspended and exiting notifications
\* call nothing and leave the dispatcher's fields and the platform untouched.
C20_UnmappedEventsInert ==
    [][ (OwnedEvent("Other") \/ last'.kind \in {"OtherDevice", "suspended", "exiting"}) =>
            /\ calls' = <<>>
            /\ appVars' = appVars
            /\ exit_by' = exit_by
            /\ redraw_requested' = redraw_requested
            /\ platform_cursor' = platform_cursor
            /\ histVars' = histVars
      ]_vars

\* C20's case: an unmapped window event while focused and with a hidden cursor.
C20_Witness ==
    /\ last.kind = "Other"
    /\ window # None
    /\ last.id = window
    /\ is_focused
    /\ ~cursor_is_visible
    /\ calls = <<>>
====
